---- MODULE Spec2Model ----
(***************************************************************************)
(* Model of the ETHInfants scripts: the block pipeline of getcontract2.py  *)
(* (class BlockchainDataCollector) and getcontract3.py (class ContractGet) *)
(* and the pool pipeline of getpools.py (class PoolCollector).             *)
(*                                                                         *)
(* Text that the code parses or formats (hex block numbers) is a sequence  *)
(* of one-character strings.  A JSON object is a record; a key the object  *)
(* does not carry is the marker Absent, JSON null / Python None is Null.   *)
(***************************************************************************)
EXTENDS Integers, Sequences, FiniteSets, TLC

VARIABLES
    variant,            \* 2: getcontract2.py, 3: getcontract3.py, 0: getpools.py
    pc,                 \* position of the running script or call
    start_block,        \* main(): start_block
    end_block,          \* main(): end_block
    batch_request,      \* value returned by create_batch_request
    posts,              \* the requests.post calls issued so far, with their replies
    blocks_data,        \* main(): blocks_data
    contract_creations, \* filter_contract_creations(): contract_creations
    events,             \* verification calls, HTTP lookups and appends, in order
    fault,              \* the exception that left the call uncaught, or NoFault
    contracts,          \* save_to_csv(): the list it was given
    csv_file,           \* the output file
    printed,            \* messages printed to the operator
    pools,              \* getpools.py main(): pools
    detailed_pools,     \* getpools.py main(): detailed_pools
    pool_i              \* position of `for pool in pools`

vars == <<variant, pc, start_block, end_block, batch_request, posts, blocks_data,
          contract_creations, events, fault, contracts, csv_file, printed,
          pools, detailed_pools, pool_i>>

poolVars == <<pools, detailed_pools, pool_i>>

-----------------------------------------------------------------------------
(* Bounds of the model *)

\* block numbers of the function-level check of create_batch_request lie in
\* -MaxBlockNum .. MaxBlockNum (and around FirstBlock)
MaxBlockNum == 3

\* a requested range spans at most MaxWidth + 1 blocks (end - start <= MaxWidth)
MaxWidth == 3

\* a gateway response carries at most MaxBlocks block results ...
MaxBlocks == 2

\* ... with at most MaxTxs transactions in all
MaxTxs == 2

\* save_to_csv is called on its own with at most MaxRecords records
MaxRecords == 2

\* the pool API lists at most MaxPools pools
MaxPools == 2

-----------------------------------------------------------------------------
(* JSON / Python values *)

Absent == "<absent>"
Null == "<None>"
NoFault == "<none>"

\* the block range hard-coded in getcontract2.py main()
FirstBlock == 21323237
LastBlock == 21323337

Max(a, b) == IF a >= b THEN a ELSE b

HexDigits == <<"0", "1", "2", "3", "4", "5", "6", "7", "8", "9",
               "a", "b", "c", "d", "e", "f">>

RECURSIVE HexDigitsOf(_)
\* the hexadecimal digits of n >= 0, most significant first, no leading zero
HexDigitsOf(n) ==
    IF n < 16 THEN <<HexDigits[n + 1]>>
    ELSE Append(HexDigitsOf(n \div 16), HexDigits[(n % 16) + 1])

\* Python's hex(n): "0x..." and "-0x..." for a negative n
hex(n) ==
    IF n < 0 THEN <<"-", "0", "x">> \o HexDigitsOf(-n)
    ELSE <<"0", "x">> \o HexDigitsOf(n)

\* value of one hexadecimal digit, either case; -1 when c is no digit
DigitValue(c) ==
    CASE c = "0" -> 0 [] c = "1" -> 1 [] c = "2" -> 2 [] c = "3" -> 3
      [] c = "4" -> 4 [] c = "5" -> 5 [] c = "6" -> 6 [] c = "7" -> 7
      [] c = "8" -> 8 [] c = "9" -> 9
      [] c \in {"a", "A"} -> 10 [] c \in {"b", "B"} -> 11
      [] c \in {"c", "C"} -> 12 [] c \in {"d", "D"} -> 13
      [] c \in {"e", "E"} -> 14 [] c \in {"f", "F"} -> 15
      [] OTHER -> -1

RECURSIVE DigitsValue(_, _)
\* the digits of s read left to right on top of acc; -1 when one is no digit
DigitsValue(s, acc) ==
    IF s = <<>> THEN acc
    ELSE IF DigitValue(Head(s)) < 0 THEN -1
    ELSE DigitsValue(Tail(s), acc * 16 + DigitValue(Head(s)))

RECURSIVE DecimalValue(_, _)
\* the digits of s read left to right in base 10 on top of acc
DecimalValue(s, acc) ==
    IF s = <<>> THEN acc
    ELSE DecimalValue(Tail(s), acc * 10 + DigitValue(Head(s)))

\* Python's int(s, 16): optional sign, optional 0x / 0X prefix, at least one
\* digit; ok = FALSE is the ValueError
int16(s) ==
    LET neg == s # <<>> /\ Head(s) = "-"
        s1 == IF s # <<>> /\ Head(s) \in {"-", "+"} THEN Tail(s) ELSE s
        s2 == IF Len(s1) >= 2 /\ s1[1] = "0" /\ s1[2] \in {"x", "X"}
              THEN Tail(Tail(s1)) ELSE s1
        v == DigitsValue(s2, 0)
    IN  IF s2 = <<>> \/ v < 0 THEN [ok |-> FALSE, val |-> 0]
        ELSE [ok |-> TRUE, val |-> IF neg THEN -v ELSE v]

-----------------------------------------------------------------------------
(* create_batch_request *)

\* one JSON-RPC call object
BatchEntry(block_num) ==
    [jsonrpc |-> "2.0",
     id |-> block_num,
     method |-> "eth_getBlockByNumber",
     params |-> <<hex(block_num), TRUE>>]

\* the loop bound mutated: range(start_block, end_block)
RangeStopOffByOne(end) == end

\* range(start_block, end_block + 1) stops before end_block + 1
RangeStop(end) == end + 1

\* range(start, stop): the integers from start up to stop - 1, in order
PyRange(start, stop) == [i \in 1 .. Max(0, stop - start) |-> start + i - 1]

\* for block_num in range(start_block, end_block + 1): batch_request.append({...})
create_batch_request(start, end) ==
    LET nums == PyRange(start, RangeStop(end))
    IN  [i \in 1 .. Len(nums) |-> BatchEntry(nums[i])]

-----------------------------------------------------------------------------
(* check_contract_verification *)

\* a JSON value: its type and its text; a key the object does not carry
JStr(t) == <<"str", t>>
JInt(t) == <<"int", t>>
JAbsent == <<"absent", "">>

\* what the explorer does with the GET: the request fails (the transport, or
\* raise_for_status on a status that is no success), the body is not JSON (a
\* RequestException with requests >= 2.27, a plain ValueError before), or the
\* body is a JSON object
VerifyReplies ==
    { [kind |-> "transport", status |-> JAbsent, message |-> JAbsent],
      [kind |-> "bad_json_new", status |-> JAbsent, message |-> JAbsent],
      [kind |-> "bad_json_old", status |-> JAbsent, message |-> JAbsent],
      [kind |-> "json", status |-> JStr("1"), message |-> JStr("OK")],
      [kind |-> "json", status |-> JStr("0"), message |-> JStr("NOTOK")],
      [kind |-> "json", status |-> JInt("1"), message |-> JAbsent],
      [kind |-> "json", status |-> JAbsent, message |-> JStr("NOTOK")] }

\* str(e) of the RequestException caught
ErrorText(reply) ==
    CASE reply.kind = "transport" -> "ConnectionError"
      [] reply.kind = "http_error" -> "HTTPError"
      [] OTHER -> "JSONDecodeError"

\* the exceptions of a reply that `except requests.RequestException` catches
IsRequestException(reply) == reply.kind \in {"transport", "http_error", "bad_json_new"}

\* data['status'] == '1' mutated: any status but "0" counts as verified
IsVerifiedLoose(status) == status # JStr("0")

\* data['status'] == '1'
IsVerified(status) == status = JStr("1")

\* data.get('message', 'Unknown')
MessageOf(reply) == IF reply.message = JAbsent THEN "Unknown" ELSE reply.message[2]

\* One call of check_contract_verification: whether the GET was issued, the
\* uncaught exception if any, and the dictionary returned.
\* getcontract2.py reads self.etherscan_api_key, which __init__ never sets,
\* while building params: AttributeError, before the GET.
check_contract_verification(v, contract_address, reply) ==
    LET none == [address |-> contract_address, verified |-> FALSE, message |-> ""]
    IN  IF v = 2
        THEN [get |-> FALSE, fault |-> "AttributeError", ret |-> none]
        ELSE IF IsRequestException(reply)
        THEN [get |-> TRUE, fault |-> NoFault,
              ret |-> [address |-> contract_address, verified |-> FALSE,
                       message |-> ErrorText(reply)]]
        ELSE IF reply.kind = "bad_json_old"
        THEN [get |-> TRUE, fault |-> "ValueError", ret |-> none]
        ELSE IF reply.status = JAbsent
        THEN [get |-> TRUE, fault |-> "KeyError", ret |-> none]
        ELSE [get |-> TRUE, fault |-> NoFault,
              ret |-> [address |-> contract_address,
                       verified |-> IsVerified(reply.status),
                       message |-> MessageOf(reply)]]

-----------------------------------------------------------------------------
(* filter_contract_creations *)

\* Python truth of a string-valued field: absent, None and '' are false
Truthy(x) == x \notin {Absent, Null, ""}

\* 'result' not in block or not block['result'] is false: the block is scanned
Usable(block) == block.tag = "dict" /\ block.keys # {}

\* block['result'].get('transactions', [])
TransactionsOf(block) ==
    IF "transactions" \in block.keys THEN block.transactions ELSE <<>>

\* the summary of a creation transaction before the verification fields
ContractInfo(v, tx, block_number) ==
    IF v = 2
    THEN [txHash |-> tx.hash, blockNumber |-> block_number, creator |-> tx.from,
          value |-> tx.value, gasPrice |-> tx.gasPrice]
    ELSE [txHash |-> tx.hash, blockNumber |-> block_number, from |-> tx.from,
          to |-> tx.to, creator |-> tx.from, value |-> tx.value,
          gasPrice |-> tx.gasPrice]

\* contract_info.update({...})
WithVerification(info, contract_address, verification_info) ==
    [contractAddress |-> contract_address,
     verified |-> verification_info.verified,
     verificationMessage |-> verification_info.message] @@ info

\* the test of a creation transaction mutated: tx['to'] is not None
IsCreationInverted(tx) == tx.to # Null

\* tx['to'] is None
IsCreation(tx) == tx.to = Null

\* the block number mutated: the digits after the prefix read in base 10
BlockNumberDecimal(block) ==
    LET r == int16(block.number)
    IN  [r EXCEPT !.val = DecimalValue(Tail(Tail(block.number)), 0)]

\* int(block['result']['number'], 16)
BlockNumber(block) == int16(block.number)

\* an entry of the event log: ev is "call" (check_contract_verification is
\* entered), "get" (its requests.get is issued and answered by reply),
\* "return" (it returns verified, message), "raise" (it raises fault) or
\* "append" (contract_creations.append)
NoReply == [kind |-> "none", status |-> JAbsent, message |-> JAbsent]
Event(ev, tx) ==
    [ev |-> ev, hash |-> tx.hash, address |-> tx.creates, reply |-> NoReply,
     verified |-> FALSE, message |-> "", fault |-> NoFault]

\* the events of one call of check_contract_verification with outcome r
LookupEvents(tx, reply, r) ==
    <<Event("call", tx)>>
    \o (IF r.get THEN <<[Event("get", tx) EXCEPT !.reply = reply]>> ELSE <<>>)
    \o (IF r.fault # NoFault THEN <<[Event("raise", tx) EXCEPT !.fault = r.fault]>>
        ELSE <<[Event("return", tx) EXCEPT !.verified = r.ret.verified,
                                           !.message = r.ret.message]>>)

\* The body of `for tx in transactions` on the loop state st:
\* cc the summaries so far, ev the events so far, k the replies consumed,
\* fault the exception that ended the call.
TxStep(v, st, tx, block_number, replies) ==
    IF st.fault # NoFault THEN st
    ELSE IF tx.to = Absent THEN [st EXCEPT !.fault = "KeyError"]
    ELSE IF ~IsCreation(tx) THEN st
    ELSE IF tx.creates # Absent /\ Truthy(tx.creates)
    THEN LET r == check_contract_verification(v, tx.creates, replies[st.k + 1])
             seen == st.ev \o LookupEvents(tx, replies[st.k + 1], r)
         IN  IF r.fault # NoFault
             THEN [st EXCEPT !.ev = seen, !.k = st.k + 1, !.fault = r.fault]
             ELSE [cc |-> Append(st.cc, WithVerification(ContractInfo(v, tx, block_number),
                                                         tx.creates, r.ret)),
                   ev |-> Append(seen, Event("append", tx)),
                   k |-> st.k + 1,
                   fault |-> NoFault]
    ELSE [st EXCEPT !.cc = Append(st.cc, ContractInfo(v, tx, block_number)),
                    !.ev = Append(st.ev, Event("append", tx))]

RECURSIVE TxLoop(_, _, _, _, _)
\* for tx in transactions
TxLoop(v, st, txs, block_number, replies) ==
    IF txs = <<>> THEN st
    ELSE TxLoop(v, TxStep(v, st, Head(txs), block_number, replies), Tail(txs),
                block_number, replies)

\* The body of `for block in blocks_data`
BlockStep(v, st, block, replies) ==
    IF st.fault # NoFault THEN st
    ELSE IF ~Usable(block) THEN st
    ELSE IF "number" \notin block.keys THEN [st EXCEPT !.fault = "KeyError"]
    ELSE IF ~BlockNumber(block).ok THEN [st EXCEPT !.fault = "ValueError"]
    ELSE TxLoop(v, st, TransactionsOf(block), BlockNumber(block).val, replies)

RECURSIVE BlockLoop(_, _, _, _)
\* for block in blocks_data
BlockLoop(v, st, blocks, replies) ==
    IF blocks = <<>> THEN st
    ELSE BlockLoop(v, BlockStep(v, st, Head(blocks), replies), Tail(blocks), replies)

\* filter_contract_creations(blocks_data), the explorer answering the k-th
\* lookup with replies[k]
filter_contract_creations(v, blocks, replies) ==
    BlockLoop(v, [cc |-> <<>>, ev |-> <<>>, k |-> 0, fault |-> NoFault], blocks, replies)

-----------------------------------------------------------------------------
(* save_to_csv *)

\* the keys of the dictionaries the scripts build, in insertion order
KeyOrder ==
    <<"txHash", "blockNumber", "from", "to", "creator", "value", "gasPrice",
      "contractAddress", "verified", "verificationMessage",
      "pool_address", "created_at", "name", "base_token_price_usd",
      "quote_token_price_usd", "pool_created_at", "reserve_in_usd", "dex_id">>

\* rec.keys(), in insertion order
Keys(rec) == SelectSeq(KeyOrder, LAMBDA k : k \in DOMAIN rec)

Range(seq) == {seq[i] : i \in 1 .. Len(seq)}

\* the text csv writes for the value of a field: '' for None, str() otherwise;
\* the decimal text of an integer is kept as the integer
TextCell(s) == [s |-> s, n |-> 0]
IntCell(n) == [s |-> "<int>", n |-> n]
CellOf(rec, key) ==
    IF key = "blockNumber" THEN IntCell(rec[key])
    ELSE IF key = "verified" THEN TextCell(IF rec[key] THEN "True" ELSE "False")
    ELSE IF rec[key] = Null THEN TextCell("")
    ELSE TextCell(rec[key])

\* DictWriter._dict_to_list: rowdict.get(key, restval) for key in fieldnames
DictToList(fieldnames, rowdict) ==
    [j \in 1 .. Len(fieldnames) |->
        IF fieldnames[j] \in DOMAIN rowdict THEN CellOf(rowdict, fieldnames[j])
        ELSE TextCell("")]

\* extrasaction = 'ignore': no row has wrong fields
WrongFieldsIgnored(fieldnames, rowdict) == {}

\* DictWriter._dict_to_list: wrong_fields = rowdict.keys() - self.fieldnames
WrongFields(fieldnames, rowdict) == DOMAIN rowdict \ Range(fieldnames)

\* d.get(key): None when the dictionary does not carry the key
PoolGet(x) == IF x = Absent THEN Null ELSE x

\* pool_data of PoolCollector.save_to_csv; pool.get('attributes', {}) and
\* pool.get('relationships', {}).get('dex', {}).get('data', {}) are empty
\* dictionaries when the pool does not carry the key
Flatten(pool) ==
    LET attributes == IF pool.attributes.has THEN pool.attributes
                      ELSE [has |-> FALSE, created_at |-> Absent, name |-> Absent,
                            base_token_price_usd |-> Absent,
                            quote_token_price_usd |-> Absent,
                            pool_created_at |-> Absent, reserve_in_usd |-> Absent]
        dex == IF pool.relationships.has THEN pool.relationships.dex_id ELSE Absent
    IN  [pool_address |-> PoolGet(pool.id),
         created_at |-> PoolGet(attributes.created_at),
         name |-> PoolGet(attributes.name),
         base_token_price_usd |-> PoolGet(attributes.base_token_price_usd),
         quote_token_price_usd |-> PoolGet(attributes.quote_token_price_usd),
         pool_created_at |-> PoolGet(attributes.pool_created_at),
         reserve_in_usd |-> PoolGet(attributes.reserve_in_usd),
         dex_id |-> PoolGet(dex)]

\* the records handed to the writer mutated: in reverse order
RowDictsReversed(v, recs) ==
    IF v = 0 THEN [i \in 1 .. Len(recs) |-> Flatten(recs[Len(recs) + 1 - i])]
    ELSE [i \in 1 .. Len(recs) |-> recs[Len(recs) + 1 - i]]

\* the records handed to csv.DictWriter: flattened_pools in getpools.py,
\* contracts itself in getcontract2.py and getcontract3.py
RowDicts(v, recs) ==
    IF v = 0 THEN [i \in 1 .. Len(recs) |-> Flatten(recs[i])] ELSE recs

\* the header row mutated: the keys of the last record
FieldNamesOfLast(rows) == Keys(rows[Len(rows)])

\* fieldnames = contracts[0].keys()
FieldNames(rows) == Keys(rows[1])

\* the message of the empty list
NothingToSave(v) == IF v = 0 THEN "No pools to save" ELSE "No contracts to save"

\* What the file system does: open() fails, or it succeeds and takes `lines`
\* lines before a write fails (-1: no write fails).
IoOutcomes ==
    { [open_ok |-> FALSE, lines |-> 0],
      [open_ok |-> TRUE, lines |-> 1],
      [open_ok |-> TRUE, lines |-> -1] }

NoFile == [opens |-> 0, header |-> <<>>, rows |-> <<>>]

\* save_to_csv(recs): the file, the message printed and the uncaught exception
save_to_csv(v, recs, io) ==
    IF recs = <<>>
    THEN [file |-> NoFile, msg |-> NothingToSave(v), fault |-> NoFault]
    ELSE IF ~io.open_ok
    THEN [file |-> NoFile, msg |-> "Error saving to CSV", fault |-> NoFault]
    ELSE
        LET rows == RowDicts(v, recs)
            fieldnames == FieldNames(rows)
            bad == {i \in 1 .. Len(rows) : WrongFields(fieldnames, rows[i]) # {}}
            \* rows written before writerows meets a row with wrong fields
            good == IF bad = {} THEN Len(rows)
                    ELSE (CHOOSE i \in bad : \A j \in bad : i <= j) - 1
            \* lines the file takes: the header and then the rows
            taken == IF io.lines < 0 \/ io.lines >= 1 + good THEN 1 + good
                     ELSE io.lines
            file == [opens |-> 1,
                     header |-> IF taken >= 1 THEN fieldnames ELSE <<>>,
                     rows |-> [i \in 1 .. Max(0, taken - 1) |->
                                  DictToList(fieldnames, rows[i])]]
        IN  IF taken < 1 + good
            THEN [file |-> file, msg |-> "Error saving to CSV", fault |-> NoFault]
            ELSE IF bad # {}
            THEN [file |-> file, msg |-> "", fault |-> "ValueError"]
            ELSE [file |-> file, msg |-> "Saved", fault |-> NoFault]

-----------------------------------------------------------------------------
(* The inputs: gateway responses *)

\* hash of the transaction at position ti of the block result at position bi
Hashes ==
    << <<"0xh11", "0xh12", "0xh13", "0xh14">>,
       <<"0xh21", "0xh22", "0xh23", "0xh24">>,
       <<"0xh31", "0xh32", "0xh33", "0xh34">>,
       <<"0xh41", "0xh42", "0xh43", "0xh44">> >>

\* `to` and `creates` of a transaction record: a creation without and with a
\* contract address, a creation with an empty `creates`, a transfer without
\* and with `creates`, and a record with no `to` key
TxShapes ==
    { [to |-> Null, creates |-> Absent],
      [to |-> Null, creates |-> "0xc1"],
      [to |-> Null, creates |-> ""],
      [to |-> "0xabc", creates |-> Absent],
      [to |-> "0xabc", creates |-> "0xc1"],
      [to |-> Absent, creates |-> Absent] }

Tx(bi, ti, shape) ==
    [hash |-> Hashes[bi][ti], from |-> "0xf1", to |-> shape.to,
     value |-> "0x0", gasPrice |-> "0x3b9aca00", creates |-> shape.creates]

\* the transaction lists of length n of the block result at position bi
TxSeqs(bi, n, shapes) ==
    {[ti \in 1 .. n |-> Tx(bi, ti, f[ti])] : f \in [1 .. n -> shapes]}

\* number fields: 0x1452f65 = 21311333, in capitals 0X1455E65 = 21323365,
\* 0x1455de5 = 21323237 and 0x0
NumberAt ==
    << <<"0", "x", "1", "4", "5", "2", "f", "6", "5">>,
       <<"0", "X", "1", "4", "5", "5", "E", "6", "5">>,
       <<"0", "x", "1", "4", "5", "5", "d", "e", "5">>,
       <<"0", "x", "0">> >>

BlockNumbers == {NumberAt[1], NumberAt[2]}

\* results without a usable payload: no `result` key (an error object),
\* "result": null, and "result": {}
ErrorBlock == [tag |-> "absent", keys |-> {}, number |-> <<>>, transactions |-> <<>>]
NullBlock == [tag |-> "null", keys |-> {}, number |-> <<>>, transactions |-> <<>>]
EmptyBlock == [tag |-> "dict", keys |-> {}, number |-> <<>>, transactions |-> <<>>]
UnusableBlocks == {ErrorBlock, NullBlock, EmptyBlock}

\* a block record without a `transactions` key
BareBlocks ==
    { [tag |-> "dict", keys |-> {"number"}, number |-> h, transactions |-> <<>>] :
          h \in BlockNumbers }

\* the block results at position bi with at most nt transactions
BlocksAt(bi, nt, shapes, numbers, others) ==
    others
    \cup { [tag |-> "dict", keys |-> {"number", "transactions"}, number |-> h,
            transactions |-> txs] :
              h \in numbers,
              txs \in UNION {TxSeqs(bi, n, shapes) : n \in 0 .. nt} }

RECURSIVE BlockLists(_, _, _, _, _, _)
\* the lists of at most nb block results, from position bi on, with at most
\* nt transactions in all; rich: every number at every position
BlockLists(bi, nb, nt, shapes, rich, others) ==
    {<<>>} \cup
    (IF nb = 0 THEN {}
     ELSE UNION { { <<b>> \o rest :
                      rest \in BlockLists(bi + 1, nb - 1, nt - Len(b.transactions),
                                          shapes, rich, others) } :
                  b \in BlocksAt(bi, nt, shapes,
                                 IF rich THEN BlockNumbers ELSE {NumberAt[bi]},
                                 others) })

\* the responses of the gateway in a run of main(): as the JSON-RPC gateway
\* sends them, every transaction with a `to` field, `creates` on creations
\* only, the block at each position with its own number
Responses(nb, nt) ==
    BlockLists(1, nb, nt,
               {s \in TxShapes : s.to # Absent /\ (s.to = Null \/ s.creates = Absent)
                                 /\ s.creates # ""},
               FALSE, {ErrorBlock, NullBlock})

\* the lists filter_contract_creations is called on by itself
FilterInputs(nb, nt) ==
    BlockLists(1, nb, nt, TxShapes, TRUE, UnusableBlocks \cup BareBlocks)

\* the creation transactions of `blocks` that carry a non-empty `creates`
RECURSIVE LookupCount(_)
LookupCount(blocks) ==
    IF blocks = <<>> THEN 0
    ELSE Cardinality({i \in 1 .. Len(Head(blocks).transactions) :
                         /\ Head(blocks).transactions[i].to = Null
                         /\ Truthy(Head(blocks).transactions[i].creates)})
         + LookupCount(Tail(blocks))

-----------------------------------------------------------------------------
(* fetch_blocks *)

\* What the gateway does with the POST: the transport fails, the status is
\* not a success, the body is not JSON (caught with requests >= 2.27, a
\* ValueError before), or the body is a list of block results.
FetchReplies ==
    { [kind |-> k, body |-> <<>>] :
          k \in {"transport", "http_error", "bad_json_new", "bad_json_old"} }
    \cup { [kind |-> "json", body |-> b] : b \in Responses(MaxBlocks, MaxTxs) }

\* one requests.post call: the body it carries and the reply it gets
Post(body, reply) == [body |-> body, reply |-> reply.kind]

\* fetch_blocks mutated: a failed request is issued a second time
fetch_blocks_retrying(start, end, reply) ==
    LET body == create_batch_request(start, end)
    IN  IF IsRequestException(reply)
        THEN [posted |-> <<Post(body, reply), Post(body, reply)>>, ret |-> <<>>,
              msg |-> "Error fetching blocks", fault |-> NoFault]
        ELSE IF reply.kind = "bad_json_old"
        THEN [posted |-> <<Post(body, reply)>>, ret |-> <<>>, msg |-> "",
              fault |-> "ValueError"]
        ELSE [posted |-> <<Post(body, reply)>>, ret |-> reply.body,
              msg |-> "Response status code", fault |-> NoFault]

\* fetch_blocks(start_block, end_block): the requests posted, the list
\* returned, the message printed and the uncaught exception
fetch_blocks(start, end, reply) ==
    LET body == create_batch_request(start, end)
    IN  IF IsRequestException(reply)
        THEN [posted |-> <<Post(body, reply)>>, ret |-> <<>>,
              msg |-> "Error fetching blocks", fault |-> NoFault]
        ELSE IF reply.kind = "bad_json_old"
        THEN [posted |-> <<Post(body, reply)>>, ret |-> <<>>, msg |-> "",
              fault |-> "ValueError"]
        ELSE [posted |-> <<Post(body, reply)>>, ret |-> reply.body,
              msg |-> "Response status code", fault |-> NoFault]

-----------------------------------------------------------------------------
(* main() of getcontract2.py and getcontract3.py *)

\* block_width of config.ini
Widths == {-1, MaxWidth}

Init ==
    /\ variant \in {2, 3}
    /\ pc = "main"
    /\ start_block = FirstBlock
    /\ end_block \in IF variant = 2 THEN {LastBlock}
                     ELSE {start_block + w : w \in Widths}
    /\ batch_request = <<>>
    /\ posts = <<>>
    /\ blocks_data = <<>>
    /\ contract_creations = <<>>
    /\ events = <<>>
    /\ fault = NoFault
    /\ contracts = <<>>
    /\ csv_file = NoFile
    /\ printed = <<>>
    /\ pools = <<>>
    /\ detailed_pools = <<>>
    /\ pool_i = 0

\* blocks_data = collector.fetch_blocks(start_block, end_block)
MainFetchBlocks ==
    /\ pc = "main"
    /\ \E reply \in FetchReplies :
         \E r \in {fetch_blocks(start_block, end_block, reply)} :
             /\ posts' = posts \o r.posted
             /\ blocks_data' = r.ret
             /\ fault' = r.fault
             /\ printed' = IF r.msg = "" THEN printed ELSE Append(printed, r.msg)
             /\ pc' = IF r.fault # NoFault THEN "raised" ELSE "fetched"
    /\ UNCHANGED poolVars
    /\ UNCHANGED <<variant, start_block, end_block, batch_request,
                   contract_creations, events, contracts, csv_file>>

\* `if blocks_data:` is false
MainNoBlocks ==
    /\ pc = "fetched"
    /\ blocks_data = <<>>
    /\ pc' = "done"
    /\ UNCHANGED poolVars
    /\ UNCHANGED <<variant, start_block, end_block, batch_request, posts, blocks_data,
                   contract_creations, events, fault, contracts, csv_file, printed>>

\* contract_creations = collector.filter_contract_creations(blocks_data)
MainFilter ==
    /\ pc = "fetched"
    /\ blocks_data # <<>>
    /\ \E replies \in [1 .. LookupCount(blocks_data) -> VerifyReplies] :
         \E r \in {filter_contract_creations(variant, blocks_data, replies)} :
             /\ contract_creations' = r.cc
             /\ events' = r.ev
             /\ fault' = r.fault
             /\ pc' = IF r.fault # NoFault THEN "raised" ELSE "filtered"
             /\ printed' = IF r.fault # NoFault THEN printed
                           ELSE Append(printed, "Found contract creations")
    /\ UNCHANGED poolVars
    /\ UNCHANGED <<variant, start_block, end_block, batch_request, posts, blocks_data,
                   contracts, csv_file>>

\* `if contract_creations:` is false
MainNoCreations ==
    /\ pc = "filtered"
    /\ contract_creations = <<>>
    /\ pc' = "done"
    /\ UNCHANGED poolVars
    /\ UNCHANGED <<variant, start_block, end_block, batch_request, posts, blocks_data,
                   contract_creations, events, fault, contracts, csv_file, printed>>

\* collector.save_to_csv(contract_creations) and the prints around it
MainSaveToCsv ==
    /\ pc = "filtered"
    /\ contract_creations # <<>>
    /\ \E io \in IoOutcomes :
         \E r \in {save_to_csv(variant, contract_creations, io)} :
         LET before == IF variant = 2 THEN <<"First contract creation found">> ELSE <<>>
             after == IF variant = 3 /\ r.fault = NoFault
                      THEN <<"Results saved to CSV file">> ELSE <<>>
         IN  /\ contracts' = contract_creations
             /\ csv_file' = r.file
             /\ fault' = r.fault
             /\ printed' = printed \o before
                           \o (IF r.msg = "" THEN <<>> ELSE <<r.msg>>) \o after
             /\ pc' = IF r.fault # NoFault THEN "raised" ELSE "done"
    /\ UNCHANGED poolVars
    /\ UNCHANGED <<variant, start_block, end_block, batch_request, posts, blocks_data,
                   contract_creations, events>>

Next ==
    \/ MainFetchBlocks
    \/ MainNoBlocks
    \/ MainFilter
    \/ MainNoCreations
    \/ MainSaveToCsv

Spec == Init /\ [][Next]_vars

-----------------------------------------------------------------------------
(* Function-level run of filter_contract_creations *)

InitFilter ==
    /\ variant \in {2, 3}
    /\ pc = "call_filter_contract_creations"
    /\ blocks_data \in FilterInputs(MaxBlocks, MaxTxs)
    /\ start_block = FirstBlock
    /\ end_block = FirstBlock
    /\ batch_request = <<>>
    /\ posts = <<>>
    /\ contract_creations = <<>>
    /\ events = <<>>
    /\ fault = NoFault
    /\ contracts = <<>>
    /\ csv_file = NoFile
    /\ printed = <<>>
    /\ pools = <<>>
    /\ detailed_pools = <<>>
    /\ pool_i = 0

FilterContractCreations ==
    /\ pc = "call_filter_contract_creations"
    /\ \E replies \in [1 .. LookupCount(blocks_data) -> VerifyReplies] :
         \E r \in {filter_contract_creations(variant, blocks_data, replies)} :
             /\ contract_creations' = r.cc
             /\ events' = r.ev
             /\ fault' = r.fault
             /\ pc' = IF r.fault # NoFault THEN "raised" ELSE "returned"
    /\ UNCHANGED poolVars
    /\ UNCHANGED <<variant, start_block, end_block, batch_request, posts, blocks_data,
                   contracts, csv_file, printed>>

NextFilter == FilterContractCreations

SpecFilter == InitFilter /\ [][NextFilter]_vars

-----------------------------------------------------------------------------
(* Function-level run of save_to_csv *)

\* the summaries filter_contract_creations builds for the transaction at
\* position i: without a contract address, and with one, verified or not
SampleSummaries(v, i) ==
    LET tx == Tx(1, i, [to |-> Null, creates |-> "0xc1"])
        info == ContractInfo(v, tx, 21311333)
    IN  { info,
          WithVerification(info, "0xc1", [verified |-> TRUE, message |-> "OK"]),
          WithVerification(info, "0xc1", [verified |-> FALSE, message |-> "NOTOK"]) }

\* pool details as the pool API returns them: id, attributes, relationships;
\* `has` tells whether the pool carries the key
SamplePools(i) ==
    { [id |-> Hashes[4][i],
       attributes |-> [has |-> TRUE, created_at |-> Absent, name |-> "WETH / USDC",
                       base_token_price_usd |-> "1.0", quote_token_price_usd |-> "2.0",
                       pool_created_at |-> "2024-12-03T00:00:00Z",
                       reserve_in_usd |-> "10.5"],
       relationships |-> [has |-> TRUE, dex_id |-> "uniswap_v3"]],
      [id |-> Hashes[4][i],
       attributes |-> [has |-> TRUE, created_at |-> Absent, name |-> "PEPE / WETH",
                       base_token_price_usd |-> Null, quote_token_price_usd |-> "2.0",
                       pool_created_at |-> "2024-12-03T00:00:00Z",
                       reserve_in_usd |-> "0"],
       relationships |-> [has |-> TRUE, dex_id |-> "uniswap_v2"]],
      [id |-> Hashes[4][i],
       attributes |-> [has |-> FALSE, created_at |-> Absent, name |-> Absent,
                       base_token_price_usd |-> Absent, quote_token_price_usd |-> Absent,
                       pool_created_at |-> Absent, reserve_in_usd |-> Absent],
       relationships |-> [has |-> FALSE, dex_id |-> Absent]] }

\* the lists of at most MaxRecords records save_to_csv of script v is given
RecordLists(v) ==
    UNION { { [i \in 1 .. n |-> f[i]] :
                f \in { g \in [1 .. n -> UNION {IF v = 0 THEN SamplePools(i)
                                                 ELSE SampleSummaries(v, i) : i \in 1 .. n}] :
                          \A i \in 1 .. n : g[i] \in (IF v = 0 THEN SamplePools(i)
                                                      ELSE SampleSummaries(v, i)) } } :
            n \in 0 .. MaxRecords }

InitCsv ==
    /\ variant \in {0, 2, 3}
    /\ pc = "call_save_to_csv"
    /\ contracts \in RecordLists(variant)
    /\ start_block = FirstBlock
    /\ end_block = FirstBlock
    /\ batch_request = <<>>
    /\ posts = <<>>
    /\ blocks_data = <<>>
    /\ contract_creations = <<>>
    /\ events = <<>>
    /\ fault = NoFault
    /\ csv_file = NoFile
    /\ printed = <<>>
    /\ pools = <<>>
    /\ detailed_pools = <<>>
    /\ pool_i = 0

SaveToCsv ==
    /\ pc = "call_save_to_csv"
    /\ \E io \in IoOutcomes :
         \E r \in {save_to_csv(variant, contracts, io)} :
             /\ csv_file' = r.file
             /\ fault' = r.fault
             /\ printed' = IF r.msg = "" THEN printed ELSE Append(printed, r.msg)
             /\ pc' = IF r.fault # NoFault THEN "raised" ELSE "returned"
    /\ UNCHANGED poolVars
    /\ UNCHANGED <<variant, start_block, end_block, batch_request, posts, blocks_data,
                   contract_creations, events, contracts>>

NextCsv == SaveToCsv

SpecCsv == InitCsv /\ [][NextCsv]_vars

-----------------------------------------------------------------------------
(* Function-level run of create_batch_request *)

BatchNums == (-MaxBlockNum .. MaxBlockNum) \cup (FirstBlock - 1 .. FirstBlock + 1)

InitBatch ==
    /\ variant \in {2, 3}
    /\ pc = "call_create_batch_request"
    /\ start_block \in BatchNums
    /\ end_block \in start_block - 2 .. start_block + MaxWidth
    /\ batch_request = <<>>
    /\ posts = <<>>
    /\ blocks_data = <<>>
    /\ contract_creations = <<>>
    /\ events = <<>>
    /\ fault = NoFault
    /\ contracts = <<>>
    /\ csv_file = NoFile
    /\ printed = <<>>
    /\ pools = <<>>
    /\ detailed_pools = <<>>
    /\ pool_i = 0

CreateBatchRequest ==
    /\ pc = "call_create_batch_request"
    /\ batch_request' = create_batch_request(start_block, end_block)
    /\ pc' = "returned"
    /\ UNCHANGED poolVars
    /\ UNCHANGED <<variant, start_block, end_block, posts, blocks_data,
                   contract_creations, events, fault, contracts, csv_file, printed>>

NextBatch == CreateBatchRequest

SpecBatch == InitBatch /\ [][NextBatch]_vars

\* C1: create_batch_request(start, end) returns end-start+1 call objects when
\* start <= end and none when start > end; entry i (0-based) has id start+i,
\* method eth_getBlockByNumber and params (hex(start+i), true), so the ids are
\* strictly increasing and contiguous and every block of [start, end] is
\* requested exactly once.
BatchRequestCoversRange ==
    pc = "returned" =>
        /\ Len(batch_request) =
               (IF start_block <= end_block THEN end_block - start_block + 1 ELSE 0)
        /\ \A i \in 1 .. Len(batch_request) :
               /\ batch_request[i].id = start_block + i - 1
               /\ batch_request[i].method = "eth_getBlockByNumber"
               /\ batch_request[i].jsonrpc = "2.0"
               /\ batch_request[i].params[2] = TRUE
               /\ batch_request[i].params[1] = hex(start_block + i - 1)
               /\ int16(batch_request[i].params[1]) =
                      [ok |-> TRUE, val |-> start_block + i - 1]
        /\ \A i \in 1 .. Len(batch_request) - 1 :
               batch_request[i + 1].id = batch_request[i].id + 1
        /\ \A n \in start_block .. end_block :
               Cardinality({i \in 1 .. Len(batch_request) :
                                batch_request[i].id = n}) = 1

\* a returned batch of three blocks around block 21323237 = 0x1455de5
BatchRequestWitness ==
    /\ pc = "returned"
    /\ start_block = FirstBlock - 1
    /\ end_block = FirstBlock + 1
    /\ Len(batch_request) = 3
    /\ batch_request[2].params[1] = <<"0", "x", "1", "4", "5", "5", "d", "e", "5">>

-----------------------------------------------------------------------------
(* What the claims speak of, stated on the inputs *)

\* a block result carries a usable payload: a `result` that is neither null
\* nor empty
HasPayload(block) == block.tag = "dict" /\ block.keys # {}

RECURSIVE PayloadTxs(_)
\* the transactions of the blocks with a payload, in block order and then in
\* transaction order
PayloadTxs(blocks) ==
    IF blocks = <<>> THEN <<>>
    ELSE (IF HasPayload(Head(blocks)) THEN Head(blocks).transactions ELSE <<>>)
         \o PayloadTxs(Tail(blocks))

HashesOf(txs) == [i \in 1 .. Len(txs) |-> txs[i].hash]
TxHashesOf(summaries) == [i \in 1 .. Len(summaries) |-> summaries[i].txHash]

\* the transactions whose `to` is null
NullTo(txs) == SelectSeq(txs, LAMBDA tx : tx.to = Null)

\* the creation transactions that carry a non-empty `creates`
WithCreates(txs) ==
    SelectSeq(txs, LAMBDA tx : tx.to = Null /\ tx.creates \notin {Absent, Null, ""})

\* the entries of the event log of kind ev
EventsOf(ev) == SelectSeq(events, LAMBDA e : e.ev = ev)

FilterCalled == pc \in {"returned", "raised"}

-----------------------------------------------------------------------------
(* C2 *)

\* C2: for any list of block results filter_contract_creations (getcontract3)
\* returns exactly one summary per transaction whose `to` is null and none for
\* the transactions whose `to` is non-null, in block order and then transaction
\* order; results without a usable payload are skipped and do not stop the
\* later results from being processed.
FilterReturnsOneSummaryPerNullTo ==
    (/\ variant = 3
     /\ FilterCalled
     /\ \A i \in 1 .. Len(PayloadTxs(blocks_data)) :
            PayloadTxs(blocks_data)[i].to # Absent)
    => /\ pc = "returned"
       /\ TxHashesOf(contract_creations) = HashesOf(NullTo(PayloadTxs(blocks_data)))

\* The return value alone: whenever filter_contract_creations returns, in
\* either script, it returns the summaries of the null-`to` transactions in
\* order (C2 without the runs that a fault ends).
FilterReturnValue ==
    pc = "returned" =>
        TxHashesOf(contract_creations) = HashesOf(NullTo(PayloadTxs(blocks_data)))

-----------------------------------------------------------------------------
(* C3 *)

\* C3: check_contract_verification returns verified = true if and only if the
\* status field of the upstream response is the string "1"; for every other
\* upstream response, one without a status field included, it returns
\* verified = false.
VerifiedIffStatusIsOne ==
    \A i \in 1 .. Len(events) :
        (events[i].ev = "get" /\ events[i].reply.kind = "json")
        => /\ i < Len(events)
           /\ events[i + 1].ev = "return"
           /\ events[i + 1].verified = (events[i].reply.status = JStr("1"))

\* The responses that carry a status field: verified = true exactly for the
\* string "1" (C3 without the response that has no status field).
VerifiedIffStatusIsOneWhenPresent ==
    \A i \in 1 .. Len(events) :
        (/\ events[i].ev = "get"
         /\ events[i].reply.kind = "json"
         /\ events[i].reply.status # JAbsent)
        => /\ i < Len(events)
           /\ events[i + 1].ev = "return"
           /\ events[i + 1].verified = (events[i].reply.status = JStr("1"))

-----------------------------------------------------------------------------
(* C4 *)

FetchFailed == posts # <<>> /\ posts[1].reply \in {"transport", "http_error"}

\* C4: in one run of the block pipeline fetch_blocks issues exactly one network
\* call, carrying the whole batch, and never issues it again; when the call
\* fails in transport or returns a non-success status, fetch_blocks yields no
\* block results and main does no filtering, no verification lookup and no
\* CSV write.
FetchOnceAndNothingAfterFailure ==
    /\ Len(posts) <= 1
    /\ pc # "main" =>
          /\ Len(posts) = 1
          /\ Len(posts[1].body) =
                 (IF start_block <= end_block THEN end_block - start_block + 1 ELSE 0)
          /\ \A i \in 1 .. Len(posts[1].body) :
                 /\ posts[1].body[i].id = start_block + i - 1
                 /\ posts[1].body[i].method = "eth_getBlockByNumber"
                 /\ int16(posts[1].body[i].params[1]).val = start_block + i - 1
    /\ FetchFailed =>
          /\ blocks_data = <<>>
          /\ pc \in {"fetched", "done"}
          /\ fault = NoFault
          /\ contract_creations = <<>>
          /\ events = <<>>
          /\ contracts = <<>>
          /\ csv_file = NoFile
          /\ "Found contract creations" \notin Range(printed)

\* a run of getcontract3 that ended after the gateway answered with a status
\* that is no success
FetchFailureWitness ==
    /\ variant = 3
    /\ pc = "done"
    /\ Len(posts) = 1
    /\ posts[1].reply = "http_error"
    /\ Len(posts[1].body) = MaxWidth + 1
    /\ csv_file = NoFile

-----------------------------------------------------------------------------
(* C5 *)

SaveCalled == pc \in {"returned", "raised"}

\* the keys of a record as save_to_csv is given it: a pool of getpools.py
\* carries id, attributes and relationships
GivenKeys(v, rec) ==
    IF v = 0
    THEN <<"id">> \o (IF rec.attributes.has THEN <<"attributes">> ELSE <<>>)
                  \o (IF rec.relationships.has THEN <<"relationships">> ELSE <<>>)
    ELSE Keys(rec)

\* the records of the list carry identical key sets
SameKeySets ==
    \A i \in 1 .. Len(contracts) :
        Range(GivenKeys(variant, contracts[i])) = Range(GivenKeys(variant, contracts[1]))

\* the column names of getpools.py
PoolColumns ==
    <<"pool_address", "created_at", "name", "base_token_price_usd",
      "quote_token_price_usd", "pool_created_at", "reserve_in_usd", "dex_id">>

\* row i of the file shows record i of the list under the header
RowShowsRecord(i) ==
    /\ Len(csv_file.rows[i]) = Len(csv_file.header)
    /\ IF variant = 0
       THEN csv_file.rows[i][1] = TextCell(contracts[i].id)
       ELSE \A j \in 1 .. Len(csv_file.header) :
               csv_file.rows[i][j] =
                   (IF csv_file.header[j] \in DOMAIN contracts[i]
                    THEN CellOf(contracts[i], csv_file.header[j])
                    ELSE TextCell(""))

\* C5 as stated: save_to_csv given an empty list writes no file and reports
\* that nothing was saved; given a non-empty list of n records with identical
\* key sets it writes a single file whose header row is the first record's
\* keys, followed by exactly n data rows in input order.
CsvHeaderIsFirstRecordKeys ==
    SaveCalled =>
        /\ contracts = <<>> =>
              csv_file = NoFile /\ printed = <<NothingToSave(variant)>>
        /\ (contracts # <<>> /\ SameKeySets) =>
              /\ csv_file.opens = 1
              /\ csv_file.header = GivenKeys(variant, contracts[1])
              /\ Len(csv_file.rows) = Len(contracts)
              /\ \A i \in 1 .. Len(csv_file.rows) : RowShowsRecord(i)

\* C5 amended: given an empty list save_to_csv writes no file and reports that
\* nothing was saved; given a non-empty list of n records with identical key
\* sets, and no I/O error, it writes a single file whose header row is the keys
\* of the first record handed to the CSV writer (the first record's keys in
\* getcontract2 and getcontract3, the eight column names of the flattened pool
\* in getpools), followed by exactly n data rows in input order; an I/O error
\* is reported, raises nothing and leaves no file or a shorter one.
CsvHeaderIsFirstWrittenRecordKeys ==
    SaveCalled =>
        /\ contracts = <<>> =>
              csv_file = NoFile /\ printed = <<NothingToSave(variant)>>
        /\ (contracts # <<>> /\ SameKeySets) =>
              /\ pc = "returned"
              /\ fault = NoFault
              /\ csv_file.opens <= 1
              /\ printed \in {<<"Saved">>, <<"Error saving to CSV">>}
              /\ printed = <<"Saved">> =>
                    /\ csv_file.opens = 1
                    /\ csv_file.header = (IF variant = 0 THEN PoolColumns
                                          ELSE Keys(contracts[1]))
                    /\ Len(csv_file.rows) = Len(contracts)
              /\ printed = <<"Error saving to CSV">> =>
                    Len(csv_file.rows) < Len(contracts)
              /\ \A i \in 1 .. Len(csv_file.rows) : RowShowsRecord(i)

\* getpools.py has written two pools under its eight column names
CsvPoolsWitness ==
    /\ variant = 0
    /\ pc = "returned"
    /\ printed = <<"Saved">>
    /\ Len(contracts) = 2
    /\ csv_file.header = PoolColumns
    /\ Len(csv_file.rows) = 2
    /\ contracts[1].attributes.name # contracts[2].attributes.name

-----------------------------------------------------------------------------
(* C9 *)

\* a later record's key set differs from the first record's
MixedKeySets ==
    /\ variant \in {2, 3}
    /\ contracts # <<>>
    /\ \E i \in 2 .. Len(contracts) : DOMAIN contracts[i] # DOMAIN contracts[1]

\* the records that carry a key the first record does not carry
ExtraKeyRecords ==
    {i \in 1 .. Len(contracts) : ~(DOMAIN contracts[i] \subseteq DOMAIN contracts[1])}

\* C9 as stated: the column set of the file is fixed by the first record's
\* keys, and when a later record's key set differs from the first record's
\* (extra keys or missing keys) the write silently completes: no fault is
\* raised to the caller, every record yields one row, extra fields are not
\* shown and missing fields are blank.  (Runs with an I/O error set aside.)
CsvMixedKeysWriteCompletes ==
    (SaveCalled /\ MixedKeySets /\ "Error saving to CSV" \notin Range(printed)) =>
        /\ pc = "returned"
        /\ fault = NoFault
        /\ csv_file.header = Keys(contracts[1])
        /\ Len(csv_file.rows) = Len(contracts)
        /\ \A i \in 1 .. Len(csv_file.rows) : RowShowsRecord(i)

\* What the code does instead: the column set is the first record's keys.
\* When every later record's keys are among the first record's, the write
\* completes: no fault, one row per record, the missing fields blank.  When a
\* later record carries a key the first record lacks, csv.DictWriter raises
\* ValueError, which save_to_csv does not catch: the fault reaches the caller
\* and the file holds the header and only the rows before the first such
\* record.  (An I/O error before that is reported and raises nothing.)
CsvMixedKeysExtraRaises ==
    (SaveCalled /\ MixedKeySets) =>
        /\ csv_file.opens = 1 => csv_file.header \in {<<>>, Keys(contracts[1])}
        /\ \A i \in 1 .. Len(csv_file.rows) : RowShowsRecord(i)
        /\ IF "Error saving to CSV" \in Range(printed)
           THEN pc = "returned" /\ fault = NoFault
           ELSE IF ExtraKeyRecords = {}
           THEN /\ pc = "returned"
                /\ fault = NoFault
                /\ printed = <<"Saved">>
                /\ csv_file.header = Keys(contracts[1])
                /\ Len(csv_file.rows) = Len(contracts)
           ELSE /\ pc = "raised"
                /\ fault = "ValueError"
                /\ printed = <<>>
                /\ csv_file.header = Keys(contracts[1])
                /\ \A i \in ExtraKeyRecords : Len(csv_file.rows) < i
                /\ Len(csv_file.rows) + 1 \in ExtraKeyRecords

\* a summary without contract address followed by one with it: the write
\* ends in ValueError after the header and the first row
CsvExtraKeysWitness ==
    /\ variant = 3
    /\ pc = "raised"
    /\ fault = "ValueError"
    /\ Len(contracts) = 2
    /\ "contractAddress" \notin DOMAIN contracts[1]
    /\ "contractAddress" \in DOMAIN contracts[2]
    /\ Len(csv_file.rows) = 1

\* The other direction: a summary with contract address followed by one
\* without it is written with blank fields.
CsvMissingKeysWitness ==
    /\ variant = 3
    /\ pc = "returned"
    /\ printed = <<"Saved">>
    /\ Len(contracts) = 2
    /\ "contractAddress" \in DOMAIN contracts[1]
    /\ "contractAddress" \notin DOMAIN contracts[2]
    /\ Len(csv_file.rows) = 2
    /\ csv_file.rows[2][Len(csv_file.header)] = TextCell("")

-----------------------------------------------------------------------------
(* C7 *)

RECURSIVE PlaceValue(_, _)
\* the value of the hexadecimal digits d[1..i] of d by place: the digit at
\* position j counts 16^(Len(d) - j)
PlaceValue(d, i) ==
    IF i = 0 THEN 0
    ELSE DigitValue(d[i]) * 16 ^ (Len(d) - i) + PlaceValue(d, i - 1)

\* the decimal value of a number field "0x..." or "0X..."
HexFieldValue(number) == PlaceValue(Tail(Tail(number)), Len(number) - 2)

Hex1452f65 == <<"0", "x", "1", "4", "5", "2", "f", "6", "5">>

\* the blocks of blocks_data that contain the transaction of summary s
BlocksOf(s) ==
    {i \in 1 .. Len(blocks_data) :
        \E j \in 1 .. Len(blocks_data[i].transactions) :
            blocks_data[i].transactions[j].hash = s.txHash}

\* C7 as stated: every summary emitted by filter_contract_creations has a
\* blockNumber equal to the decimal value of the hex number field of the block
\* that contains its transaction; a block whose number field is hex 0x1452f65
\* yields blockNumber 21323365.
BlockNumberIsHexValueAs21323365 ==
    \A k \in 1 .. Len(contract_creations) :
        /\ BlocksOf(contract_creations[k]) # {}
        /\ \A i \in BlocksOf(contract_creations[k]) :
              /\ contract_creations[k].blockNumber = HexFieldValue(blocks_data[i].number)
              /\ blocks_data[i].number = Hex1452f65 =>
                     contract_creations[k].blockNumber = 21323365

\* C7 amended: every summary emitted by filter_contract_creations has a
\* blockNumber equal to the decimal value of the hex number field of the block
\* that contains its transaction; a block whose number field is hex 0x1452f65
\* yields blockNumber 21311333 (21323365 is hex 0x1455e65).
BlockNumberIsHexValue ==
    \A k \in 1 .. Len(contract_creations) :
        /\ BlocksOf(contract_creations[k]) # {}
        /\ \A i \in BlocksOf(contract_creations[k]) :
              /\ contract_creations[k].blockNumber = HexFieldValue(blocks_data[i].number)
              /\ blocks_data[i].number = Hex1452f65 =>
                     contract_creations[k].blockNumber = 21311333
              /\ contract_creations[k].blockNumber = 21323365 =>
                     blocks_data[i].number = <<"0", "X", "1", "4", "5", "5", "E", "6", "5">>

\* a run of main() has summarised a creation of block 0x1452f65 and one of
\* block 0X1455E65
BlockNumberWitness ==
    /\ pc = "filtered"
    /\ Len(contract_creations) = 2
    /\ blocks_data[1].number = Hex1452f65
    /\ contract_creations[1].blockNumber = 21311333
    /\ contract_creations[2].blockNumber = 21323365

-----------------------------------------------------------------------------
(* C6 *)

\* the answers that are a transport failure or a parse failure
FailedReply(reply) == reply.kind \in {"transport", "bad_json_new", "bad_json_old"}

\* C6: in both scripts a transport failure or a parse failure during
\* check_contract_verification never propagates a fault to the caller: the
\* call returns verified = false with the error text as its message, and
\* filter_contract_creations goes on (the summary is appended).  Stated on the
\* event log: a failed answer is followed by that return and by the append of
\* the summary, and a lookup raises at most after an answer that is JSON.
LookupFailureNeverPropagates ==
    FilterCalled =>
        /\ \A i \in 1 .. Len(events) :
              (events[i].ev = "get" /\ FailedReply(events[i].reply))
              => /\ i + 2 <= Len(events)
                 /\ events[i + 1].ev = "return"
                 /\ events[i + 1].verified = FALSE
                 /\ events[i + 1].message = ErrorText(events[i].reply)
                 /\ events[i + 2].ev = "append"
                 /\ events[i + 2].hash = events[i].hash
        /\ \A i \in 1 .. Len(events) :
              events[i].ev = "raise"
              => /\ i > 1
                 /\ events[i - 1].ev = "get"
                 /\ events[i - 1].reply.kind = "json"

\* What holds of getcontract3.py when the failure is a requests exception
\* (with requests >= 2.27 that includes a body that is not JSON): the call
\* returns verified = false with the error text and the summary is appended.
RequestExceptionIsNotFatal ==
    \A i \in 1 .. Len(events) :
        (events[i].ev = "get" /\ IsRequestException(events[i].reply))
        => /\ i + 2 <= Len(events)
           /\ events[i + 1].ev = "return"
           /\ events[i + 1].verified = FALSE
           /\ events[i + 1].message = ErrorText(events[i].reply)
           /\ events[i + 2].ev = "append"
           /\ events[i + 2].hash = events[i].hash

-----------------------------------------------------------------------------
(* C8 *)

\* the transactions whose `to` is null or absent
NullOrAbsentTo(txs) == SelectSeq(txs, LAMBDA tx : tx.to \in {Null, Absent})

\* C8: in filter_contract_creations a transaction of a usable block whose `to`
\* field is absent is treated as one whose `to` is null: a summary is emitted
\* for it and the remaining transactions and blocks are processed.  (On the
\* inputs that cause no verification lookup, so that no lookup's fault counts.)
AbsentToIsTreatedAsNull ==
    (FilterCalled /\ LookupCount(blocks_data) = 0)
    => /\ pc = "returned"
       /\ fault = NoFault
       /\ TxHashesOf(contract_creations) = HashesOf(NullOrAbsentTo(PayloadTxs(blocks_data)))

\* What the code does with an absent `to`: tx['to'] raises KeyError, the call
\* ends there and returns nothing.
AbsentToRaisesKeyError ==
    (/\ FilterCalled
     /\ LookupCount(blocks_data) = 0
     /\ \E i \in 1 .. Len(PayloadTxs(blocks_data)) : PayloadTxs(blocks_data)[i].to = Absent)
    => pc = "raised" /\ fault = "KeyError"

-----------------------------------------------------------------------------
(* C10 *)

\* the transaction of blocks_data with hash h carries a non-empty `creates`
CarriesCreates(h) ==
    \E i \in 1 .. Len(PayloadTxs(blocks_data)) :
        /\ PayloadTxs(blocks_data)[i].hash = h
        /\ PayloadTxs(blocks_data)[i].creates \notin {Absent, Null, ""}

\* C10: during filter_contract_creations exactly one verification lookup is
\* issued per creation transaction (null `to`) that carries a non-empty
\* `creates`, in transaction order, with no lookup for any other transaction
\* and no deduplication; each lookup finishes before its summary is appended,
\* and a summary carries contractAddress, verified and verificationMessage if
\* and only if its transaction had a non-empty `creates`.  (On the inputs in
\* which every transaction has a `to` field.)
OneLookupPerCreates ==
    (/\ FilterCalled
     /\ \A i \in 1 .. Len(PayloadTxs(blocks_data)) :
            PayloadTxs(blocks_data)[i].to # Absent)
    => /\ HashesOf(EventsOf("get")) = HashesOf(WithCreates(PayloadTxs(blocks_data)))
       /\ \A i \in 1 .. Len(events) :
              events[i].ev = "get"
              => /\ i + 2 <= Len(events)
                 /\ events[i + 1].ev = "return"
                 /\ events[i + 2].ev = "append"
                 /\ events[i + 2].hash = events[i].hash
       /\ \A k \in 1 .. Len(contract_creations) :
              /\ "contractAddress" \in DOMAIN contract_creations[k]
                     <=> CarriesCreates(contract_creations[k].txHash)
              /\ "verified" \in DOMAIN contract_creations[k]
                     <=> CarriesCreates(contract_creations[k].txHash)
              /\ "verificationMessage" \in DOMAIN contract_creations[k]
                     <=> CarriesCreates(contract_creations[k].txHash)

\* What holds when filter_contract_creations returns (which getcontract2.py
\* does only when no transaction needs a lookup): the calls of
\* check_contract_verification are those of the creation transactions with a
\* non-empty `creates`, in order, the same address looked up again each time.
LookupsOfReturnedCall ==
    pc = "returned"
    => /\ HashesOf(EventsOf("call")) = HashesOf(WithCreates(PayloadTxs(blocks_data)))
       /\ variant = 2 => events = EventsOf("append")
       /\ variant = 3 => HashesOf(EventsOf("get")) = HashesOf(EventsOf("call"))
       /\ \A i \in 1 .. Len(events) :
              events[i].ev = "get"
              => /\ i + 2 <= Len(events)
                 /\ events[i + 1].ev = "return"
                 /\ events[i + 2].ev = "append"
                 /\ events[i + 2].hash = events[i].hash
       /\ \A k \in 1 .. Len(contract_creations) :
              "contractAddress" \in DOMAIN contract_creations[k]
                  <=> CarriesCreates(contract_creations[k].txHash)

-----------------------------------------------------------------------------
(* getpools.py: get_new_pools and get_pool_details *)

\* The text of a pool id is a sequence of pieces: the network prefix "eth_"
\* and the address.  A listed pool is [keys, id]: keys tells whether it
\* carries `id`.
PoolIdTexts == { <<>>, <<"eth_", "0xp1">>, <<"0xp2">> }

ListedPools ==
    {[keys |-> {}, id |-> <<>>]} \cup {[keys |-> {"id"}, id |-> t] : t \in PoolIdTexts}

\* the lists of at most n pools the API can answer with
PoolLists(n) == UNION {[1 .. k -> ListedPools] : k \in 0 .. n}

\* a dictionary without keys, in the shape of the pool details
EmptyDetails ==
    [id |-> Absent,
     attributes |-> [has |-> FALSE, created_at |-> Absent, name |-> Absent,
                     base_token_price_usd |-> Absent, quote_token_price_usd |-> Absent,
                     pool_created_at |-> Absent, reserve_in_usd |-> Absent],
     relationships |-> [has |-> FALSE, dex_id |-> Absent]]

\* the `data` object the API holds for the pool at `address`
PoolDetails(address) ==
    [id |-> address[Len(address)],
     attributes |-> [has |-> TRUE, created_at |-> Absent, name |-> "WETH / USDC",
                     base_token_price_usd |-> "1.0", quote_token_price_usd |-> "2.0",
                     pool_created_at |-> "2024-12-03T00:00:00Z",
                     reserve_in_usd |-> "10.5"],
     relationships |-> [has |-> TRUE, dex_id |-> "uniswap_v3"]]

\* the kinds of reply that carry no JSON body
FailureKinds == {"transport", "http_error", "bad_json_new", "bad_json_old"}

\* What the pool API does with the GET of new_pools: a failure, a JSON object
\* without `data`, or one whose `data` is a list of pools
ListReplies(n) ==
    {[kind |-> k, has_data |-> FALSE, data |-> <<>>] : k \in FailureKinds}
    \cup {[kind |-> "json", has_data |-> FALSE, data |-> <<>>]}
    \cup {[kind |-> "json", has_data |-> TRUE, data |-> l] : l \in PoolLists(n)}

\* What the pool API does with the GET of pools/<address>: a failure, a JSON
\* object without `data`, with an empty `data`, or with the pool's details
DetailReplies(address) ==
    {[kind |-> k, has_data |-> FALSE, data |-> EmptyDetails] : k \in FailureKinds}
    \cup {[kind |-> "json", has_data |-> FALSE, data |-> EmptyDetails],
          [kind |-> "json", has_data |-> TRUE, data |-> EmptyDetails]}
    \cup (IF address = <<>> THEN {}
          ELSE {[kind |-> "json", has_data |-> TRUE, data |-> PoolDetails(address)]})

\* get_new_pools(page_size=20): the list returned, the message printed and
\* the uncaught exception; data.get('data', [])
get_new_pools(reply) ==
    IF IsRequestException(reply)
    THEN [ret |-> <<>>, msg |-> "Error fetching pools", fault |-> NoFault]
    ELSE IF reply.kind = "bad_json_old"
    THEN [ret |-> <<>>, msg |-> "", fault |-> "ValueError"]
    ELSE [ret |-> IF reply.has_data THEN reply.data ELSE <<>>, msg |-> "",
          fault |-> NoFault]

\* pool_address.replace('eth_', '')
StripNetwork(pool_address) == SelectSeq(pool_address, LAMBDA piece : piece # "eth_")

\* get_pool_details(pool_address): the details returned, the message printed
\* and the uncaught exception; response.json().get('data', {})
get_pool_details(pool_address, reply) ==
    IF IsRequestException(reply)
    THEN [ret |-> EmptyDetails, msg |-> "Error fetching pool details", fault |-> NoFault]
    ELSE IF reply.kind = "bad_json_old"
    THEN [ret |-> EmptyDetails, msg |-> "", fault |-> "ValueError"]
    ELSE [ret |-> IF reply.has_data THEN reply.data ELSE EmptyDetails, msg |-> "",
          fault |-> NoFault]

-----------------------------------------------------------------------------
(* main() of getpools.py *)

\* time.sleep(1)
Pause == 1

\* an entry of the event log of the pool pipeline: ev is "list" (the GET of
\* get_new_pools), "detail" (the GET of get_pool_details for address; returned
\* tells whether it returned details), "sleep" (time.sleep(seconds)) or
\* "save" (the call of save_to_csv)
PoolEvent(ev, address, reply) ==
    [ev |-> ev, address |-> address, reply |-> reply, returned |-> FALSE, seconds |-> 0]

\* pool.get('id') is truthy
HasId(pool) == "id" \in pool.keys /\ pool.id # <<>>

InitPools ==
    /\ variant = 0
    /\ pc = "main"
    /\ start_block = FirstBlock
    /\ end_block = FirstBlock
    /\ batch_request = <<>>
    /\ posts = <<>>
    /\ blocks_data = <<>>
    /\ contract_creations = <<>>
    /\ events = <<>>
    /\ fault = NoFault
    /\ contracts = <<>>
    /\ csv_file = NoFile
    /\ printed = <<>>
    /\ pools = <<>>
    /\ detailed_pools = <<>>
    /\ pool_i = 0

\* pools = collector.get_new_pools(page_size=20)
MainGetNewPools ==
    /\ pc = "main"
    /\ \E reply \in ListReplies(MaxPools) :
         \E r \in {get_new_pools(reply)} :
             /\ events' = <<PoolEvent("list", <<>>, reply.kind)>>
             /\ pools' = r.ret
             /\ fault' = r.fault
             /\ printed' = <<"Fetching new pools">>
                           \o (IF r.msg = "" THEN <<>> ELSE <<r.msg>>)
             /\ pc' = IF r.fault # NoFault THEN "raised" ELSE "listed"
    /\ UNCHANGED <<detailed_pools, pool_i>>
    /\ UNCHANGED <<variant, start_block, end_block, batch_request, posts, blocks_data,
                   contract_creations, contracts, csv_file>>

\* `if pools:` is true
MainFoundPools ==
    /\ pc = "listed"
    /\ pools # <<>>
    /\ printed' = Append(printed, "Found new pools")
    /\ pool_i' = 1
    /\ pc' = "loop"
    /\ UNCHANGED <<pools, detailed_pools>>
    /\ UNCHANGED <<variant, start_block, end_block, batch_request, posts, blocks_data,
                   contract_creations, events, fault, contracts, csv_file>>

\* `if pools:` is false
MainNoPoolsFound ==
    /\ pc = "listed"
    /\ pools = <<>>
    /\ printed' = Append(printed, "No pools found")
    /\ pc' = "done"
    /\ UNCHANGED poolVars
    /\ UNCHANGED <<variant, start_block, end_block, batch_request, posts, blocks_data,
                   contract_creations, events, fault, contracts, csv_file>>

\* one turn of `for pool in pools` in which `if pool_address:` is false
MainSkipPool ==
    /\ pc = "loop"
    /\ pool_i <= Len(pools)
    /\ ~HasId(pools[pool_i])
    /\ pool_i' = pool_i + 1
    /\ UNCHANGED <<pools, detailed_pools>>
    /\ UNCHANGED <<variant, pc, start_block, end_block, batch_request, posts,
                   blocks_data, contract_creations, events, fault, contracts, csv_file,
                   printed>>

\* one turn of `for pool in pools` in which `if pool_address:` is true:
\* get_pool_details, the append of its details and the sleep
MainPoolDetails ==
    /\ pc = "loop"
    /\ pool_i <= Len(pools)
    /\ HasId(pools[pool_i])
    /\ \E reply \in DetailReplies(StripNetwork(pools[pool_i].id)) :
         \E r \in {get_pool_details(pools[pool_i].id, reply)} :
         LET get == [PoolEvent("detail", StripNetwork(pools[pool_i].id), reply.kind)
                        EXCEPT !.returned = (r.ret # EmptyDetails)]
             sleep == [PoolEvent("sleep", <<>>, "none") EXCEPT !.seconds = Pause]
         IN  /\ printed' = printed \o <<"Fetching details for pool">>
                           \o (IF r.msg = "" THEN <<>> ELSE <<r.msg>>)
             /\ fault' = r.fault
             /\ IF r.fault # NoFault
                THEN /\ events' = Append(events, get)
                     /\ pc' = "raised"
                     /\ UNCHANGED <<detailed_pools, pool_i>>
                ELSE /\ events' = events \o <<get, sleep>>
                     /\ detailed_pools' = IF r.ret # EmptyDetails
                                          THEN Append(detailed_pools, r.ret)
                                          ELSE detailed_pools
                     /\ pool_i' = pool_i + 1
                     /\ pc' = pc
    /\ UNCHANGED pools
    /\ UNCHANGED <<variant, start_block, end_block, batch_request, posts, blocks_data,
                   contract_creations, contracts, csv_file>>

\* collector.save_to_csv(detailed_pools), after the loop
MainSavePools ==
    /\ pc = "loop"
    /\ pool_i > Len(pools)
    /\ \E io \in IoOutcomes :
         \E r \in {save_to_csv(variant, detailed_pools, io)} :
             /\ events' = Append(events, PoolEvent("save", <<>>, "none"))
             /\ contracts' = detailed_pools
             /\ csv_file' = r.file
             /\ fault' = r.fault
             /\ printed' = printed \o (IF r.msg = "" THEN <<>> ELSE <<r.msg>>)
             /\ pc' = IF r.fault # NoFault THEN "raised" ELSE "done"
    /\ UNCHANGED poolVars
    /\ UNCHANGED <<variant, start_block, end_block, batch_request, posts, blocks_data,
                   contract_creations>>

NextPools ==
    \/ MainGetNewPools
    \/ MainFoundPools
    \/ MainNoPoolsFound
    \/ MainSkipPool
    \/ MainPoolDetails
    \/ MainSavePools

SpecPools == InitPools /\ [][NextPools]_vars

-----------------------------------------------------------------------------
(* C11 *)

RECURSIVE IdsToFetch(_)
\* the addresses of the listed pools that have a non-empty id, in list order
IdsToFetch(listed) ==
    IF listed = <<>> THEN <<>>
    ELSE (IF "id" \in Head(listed).keys /\ Head(listed).id # <<>>
          THEN <<SelectSeq(Head(listed).id, LAMBDA piece : piece # "eth_")>>
          ELSE <<>>)
         \o IdsToFetch(Tail(listed))

AddressesOf(evs) == [i \in 1 .. Len(evs) |-> evs[i].address]

\* the details the detail fetches returned, in the order of the fetches
ReturnedDetails ==
    LET got == SelectSeq(events, LAMBDA e : e.ev = "detail" /\ e.returned)
    IN  [i \in 1 .. Len(got) |-> PoolDetails(got[i].address)]

\* the position of the last detail fetch in the event log, 0 without one
LastDetail ==
    IF \E i \in 1 .. Len(events) : events[i].ev = "detail"
    THEN CHOOSE i \in 1 .. Len(events) :
             /\ events[i].ev = "detail"
             /\ \A j \in i + 1 .. Len(events) : events[j].ev # "detail"
    ELSE 0

\* the pool list is fetched once, before anything else
ListFetchedOnceFirst ==
    /\ Len(EventsOf("list")) <= 1
    /\ pc # "main" => Len(EventsOf("list")) = 1 /\ events[1].ev = "list"

\* exactly one pause of Pause seconds lies between two consecutive detail
\* fetches, after a failed one too
PauseBetweenDetailFetches ==
    \A i \in 1 .. Len(events) :
        (events[i].ev = "detail" /\ i < LastDetail)
        => /\ events[i + 1].ev = "sleep"
           /\ events[i + 1].seconds = 1
           /\ events[i + 2].ev = "detail"

\* the CSV file is written at most once, after the last detail fetch, over
\* the details that were returned, in list order
CsvWrittenOnceAfterDetails ==
    /\ csv_file.opens <= 1
    /\ Len(EventsOf("save")) <= 1
    /\ csv_file.opens = 1 =>
          /\ events[Len(events)].ev = "save"
          /\ contracts = ReturnedDetails
          /\ contracts # <<>>
          /\ Len(csv_file.rows) <= Len(contracts)
          /\ \A i \in 1 .. Len(csv_file.rows) :
                csv_file.rows[i][1] = TextCell(contracts[i].id)
          /\ "Saved" \in Range(printed) => Len(csv_file.rows) = Len(contracts)

\* the list fetch failed or returned no pools: no detail fetch, no CSV write
NothingAfterEmptyList ==
    (pc # "main" /\ pools = <<>>)
    => /\ EventsOf("detail") = <<>>
       /\ EventsOf("save") = <<>>
       /\ csv_file = NoFile

\* the run of main() is over
PoolRunOver == pc \in {"done", "raised"}

\* C11: in one run of the pool pipeline the pool list is fetched exactly once
\* before any detail fetch; then exactly one detail fetch is issued per listed
\* pool that has a non-empty id, in list order, with a fixed pause between
\* every two consecutive detail fetches (also after one that failed); the CSV
\* write happens at most once and only after the last detail fetch, over the
\* details of the pools whose detail fetch returned data, in list order; when
\* the list fetch fails or returns no pools, no detail fetch and no CSV write
\* occur.
OneDetailFetchPerListedPool ==
    /\ ListFetchedOnceFirst
    /\ PauseBetweenDetailFetches
    /\ CsvWrittenOnceAfterDetails
    /\ NothingAfterEmptyList
    /\ PoolRunOver => AddressesOf(EventsOf("detail")) = IdsToFetch(pools)

\* What holds of every run, a run that a fault ends included: the order of
\* the steps, and the detail fetches issued so far are those of the first
\* listed pools with a non-empty id, one each.
PoolPipelineOrder ==
    /\ ListFetchedOnceFirst
    /\ PauseBetweenDetailFetches
    /\ CsvWrittenOnceAfterDetails
    /\ NothingAfterEmptyList
    /\ \E k \in 0 .. Len(pools) :
          AddressesOf(EventsOf("detail")) = IdsToFetch(SubSeq(pools, 1, k))
    /\ pc = "done" => AddressesOf(EventsOf("detail")) = IdsToFetch(pools)
    /\ pc = "raised" =>
          /\ fault = "ValueError"
          /\ events[Len(events)].reply = "bad_json_old"
          /\ csv_file = NoFile

\* a run that fetched the details of two pools, the first fetch failing, and
\* wrote the one pool whose details were returned
PoolPipelineWitness ==
    /\ pc = "done"
    /\ Len(pools) = 2
    /\ Len(EventsOf("detail")) = 2
    /\ EventsOf("detail")[1].reply = "transport"
    /\ EventsOf("detail")[2].returned
    /\ printed[Len(printed)] = "Saved"
    /\ Len(csv_file.rows) = 1

====
